---- MODULE Spec2Model ----
(***************************************************************************)
(* Model of the cost-optimizer-operator: the ResourceOptimizer reconciler  *)
(* (Reconcile, getDeploymentObject, analyzeAndOptimize, addCondition,      *)
(* updateStatus), the metrics Collector and the recommendation Analyzer.   *)
(*                                                                         *)
(* Quantities are integers in the unit the code reads them in: CPU usage   *)
(* reported by the metrics API in micro-cores (MilliValue rounds up to     *)
(* milli-cores), memory in bytes.  Times are whole seconds of a bounded    *)
(* clock.  A nil pointer is the empty sequence, a non-nil one a sequence   *)
(* of length one.  A Go error is its text, "nil" for no error.             *)
(***************************************************************************)
EXTENDS Integers, Sequences, FiniteSets, TLC

VARIABLES
    resourceOptimizer,  \* the stored ResourceOptimizer object: Spec.Policy and Status
    env,                \* what the API server and the metrics API answer to a pass
    now,                \* the wall clock, metav1.Now()
    last,               \* what the most recent Reconcile call did and returned, the
                        \* answers it got, and whether the call before it got the same
    analysis,           \* the calls of the Analyzer made on their own: input and result
    collection,         \* the calls of the Collector made on their own: answer and result
    workers             \* two resources and the passes the workers run for them

vars == <<resourceOptimizer, env, now, last, analysis, collection, workers>>

-----------------------------------------------------------------------------
(* Bounds of the model *)

\* the clock runs from 0 to MaxClock
MaxClock == 2

\* the metrics API returns at most MaxPods pod-metrics items to a pass
MaxPods == 2

\* the Analyzer is called on every series of up to MaxSamples samples of Samples
MaxSamples == 2

\* the metrics API returns at most MaxItems pod-metrics items to a call of the
\* Collector made on its own
MaxItems == 3

-----------------------------------------------------------------------------
(* resource.Quantity *)

Max(a, b) == IF a >= b THEN a ELSE b

\* F(x) with x computed once: the result of a call, bound to a name.  (TLC
\* computes a LET definition anew at each of its uses when it evaluates ENABLED.)
With(x, F(_)) == CHOOSE y \in {F(v) : v \in {x}} : TRUE

\* Quantity.MilliValue() of a CPU quantity held in micro-cores: ScaledValue(Milli) rounds up
MilliValue(micro) == (micro + 999) \div 1000

\* resource.MustParse(s).MilliValue() of a policy string matching ^([0-9]+m|[0-9]+)$,
\* held as its digits and its suffix
ParseMilli(s) == IF s.suffix = "m" THEN s.num ELSE s.num * 1000

\* largest k <= maxK such that base^k divides v (v > 0)
RECURSIVE Factors(_, _, _)
Factors(v, base, maxK) ==
    IF maxK = 0 \/ v % base # 0 THEN 0 ELSE 1 + Factors(v \div base, base, maxK - 1)

RECURSIVE Pow(_, _)
Pow(b, k) == IF k = 0 THEN 1 ELSE b * Pow(b, k - 1)

\* Quantity.String() of resource.NewMilliQuantity(m, DecimalSI): the canonical form
\* keeps an integer mantissa and the largest exponent that is a multiple of 3
MilliString(m) ==
    IF m = 0 THEN [num |-> 0, suffix |-> ""]
    ELSE LET z == Factors(m, 10, 9)
             e == IF z >= 9 THEN 3 ELSE IF z >= 6 THEN 2 ELSE IF z >= 3 THEN 1 ELSE 0
         IN  [num |-> m \div Pow(1000, e),
              suffix |-> CASE e = 0 -> "m" [] e = 1 -> "" [] e = 2 -> "k" [] OTHER -> "M"]

\* Quantity.String() of resource.NewQuantity(v, BinarySI): below 1024 the decimal
\* form is used, from 1024 on the factors of 1024 become Ki, Mi, Gi
BinaryString(v) ==
    IF v = 0 THEN [num |-> 0, suffix |-> ""]
    ELSE IF v < 1024
    THEN LET z == Factors(v, 10, 3)
         IN  IF z = 3 THEN [num |-> v \div 1000, suffix |-> "k"]
             ELSE [num |-> v, suffix |-> ""]
    ELSE LET k == Factors(v, 1024, 3)
         IN  [num |-> v \div Pow(1024, k),
              suffix |-> CASE k = 0 -> "" [] k = 1 -> "Ki" [] k = 2 -> "Mi" [] OTHER -> "Gi"]

-----------------------------------------------------------------------------
(* float64 arithmetic *)

\* A natural number of any size is the sequence of its digits to the base 2^13,
\* lowest first, the highest not 0; the number 0 is the empty sequence.  (TLC's
\* integers have 32 bits, the mantissa of a float64 has 53.)
LimbBits == 13

Base == Pow(2, LimbBits)

RECURSIVE Limbs(_)
Limbs(n) == IF n = 0 THEN <<>> ELSE <<n % Base>> \o Limbs(n \div Base)

\* the place of the highest digit of a that is not 0, from place i downwards
RECURSIVE Top(_, _)
Top(a, i) == IF i = 0 \/ a[i] # 0 THEN i ELSE Top(a, i - 1)

Trim(a) == SubSeq(a, 1, Top(a, Len(a)))

At(a, i) == IF i >= 1 /\ i <= Len(a) THEN a[i] ELSE 0

\* the number whose digit sums are cols, with c carried in
RECURSIVE Carry(_, _, _)
Carry(cols, i, c) ==
    IF i > Len(cols) THEN Limbs(c)
    ELSE With(cols[i] + c, LAMBDA s : <<s % Base>> \o Carry(cols, i + 1, s \div Base))

BigAdd(a, b) ==
    With([i \in 1..Max(Len(a), Len(b)) |-> At(a, i) + At(b, i)],
         LAMBDA cols : Carry(cols, 1, 0))

\* -1, 0, 1 as a is less than, equal to, greater than b
RECURSIVE CmpFrom(_, _, _)
CmpFrom(a, b, i) ==
    IF i = 0 THEN 0
    ELSE IF a[i] < b[i] THEN -1
    ELSE IF a[i] > b[i] THEN 1
    ELSE CmpFrom(a, b, i - 1)

BigCmp(a, b) ==
    IF Len(a) < Len(b) THEN -1
    ELSE IF Len(a) > Len(b) THEN 1
    ELSE CmpFrom(a, b, Len(a))

\* a - b for a >= b
RECURSIVE Borrow(_, _, _, _)
Borrow(a, b, i, c) ==
    IF i > Len(a) THEN <<>>
    ELSE With(a[i] - At(b, i) - c, LAMBDA d :
         IF d < 0 THEN <<d + Base>> \o Borrow(a, b, i + 1, 1)
                  ELSE <<d>> \o Borrow(a, b, i + 1, 0))

BigSub(a, b) == With(Borrow(a, b, 1, 0), LAMBDA d : Trim(d))

RECURSIVE ColumnSum(_, _, _, _)
ColumnSum(a, b, k, i) ==
    IF i > Len(a) \/ i > k THEN 0
    ELSE (IF k + 1 - i <= Len(b) THEN a[i] * b[k + 1 - i] ELSE 0)
         + ColumnSum(a, b, k, i + 1)

BigMul(a, b) ==
    IF a = <<>> \/ b = <<>> THEN <<>>
    ELSE With([k \in 1..(Len(a) + Len(b) - 1) |-> ColumnSum(a, b, k, 1)],
              LAMBDA cols : Carry(cols, 1, 0))

RECURSIVE SmallBits(_)
SmallBits(x) == IF x = 0 THEN 0 ELSE 1 + SmallBits(x \div 2)

BitLen(a) == IF a = <<>> THEN 0 ELSE LimbBits * (Len(a) - 1) + SmallBits(a[Len(a)])

\* a * 2^k
Shl(a, k) ==
    IF a = <<>> THEN <<>>
    ELSE With(Pow(2, k % LimbBits), LAMBDA f :
         With([i \in 1..Len(a) |-> a[i] * f], LAMBDA cols :
             [i \in 1..(k \div LimbBits) |-> 0] \o Carry(cols, 1, 0)))

\* a \div 2^k
Shr(a, k) ==
    With(k \div LimbBits, LAMBDA w :
    With(Pow(2, k % LimbBits), LAMBDA f :
        IF w >= Len(a) THEN <<>>
        ELSE With([i \in 1..(Len(a) - w) |->
                     (a[i + w] \div f) + (At(a, i + w + 1) % f) * (Base \div f)],
                  LAMBDA d : Trim(d))))

\* a / 2^s rounded to the nearest integer, a tie to the even one (s >= 1)
RoundShr(a, s) ==
    With(Shr(a, s), LAMBDA q :
    With(Shl(q, s), LAMBDA low :
    With(BigSub(a, low), LAMBDA rest :
    With(Shl(<<1>>, s - 1), LAMBDA half :
    With(BigCmp(rest, half), LAMBDA c :
        IF c = 1 \/ (c = 0 /\ At(q, 1) % 2 = 1) THEN BigAdd(q, <<1>>) ELSE q)))))

RECURSIVE BigToInt(_)
BigToInt(a) == IF a = <<>> THEN 0 ELSE a[1] + Base * BigToInt(Tail(a))

\* A float64 that is not negative is the record [m, e] of the value m * 2^e,
\* where m is 0 or a number of exactly Mantissa bits.  The operations round to
\* the nearest float64, a tie to the one with the even mantissa, as Go's do.
Mantissa == 53

\* x * 2^e rounded to a float64 (round to nearest, ties to even)
Round(x, e) ==
    With(BitLen(x), LAMBDA l :
        IF l = 0 THEN [m |-> <<>>, e |-> 0]
        ELSE IF l <= Mantissa THEN [m |-> Shl(x, Mantissa - l), e |-> e - (Mantissa - l)]
        ELSE With(RoundShr(x, l - Mantissa), LAMBDA q :
             IF BitLen(q) > Mantissa
             THEN [m |-> Shr(q, 1), e |-> e + (l - Mantissa) + 1]
             ELSE [m |-> q, e |-> e + (l - Mantissa)]))

\* float64(n) of an integer n >= 0
Float(n) == With(Limbs(n), LAMBDA x : Round(x, 0))

FMul(a, b) == With(BigMul(a.m, b.m), LAMBDA x : Round(x, a.e + b.e))

\* the two numerators over the smaller of the exponents
Aligned(a, b) ==
    IF a.m = <<>> THEN [x |-> <<>>, y |-> b.m, e |-> b.e]
    ELSE IF b.m = <<>> THEN [x |-> a.m, y |-> <<>>, e |-> a.e]
    ELSE IF a.e >= b.e THEN [x |-> Shl(a.m, a.e - b.e), y |-> b.m, e |-> b.e]
    ELSE [x |-> a.m, y |-> Shl(b.m, b.e - a.e), e |-> a.e]

FAdd(a, b) ==
    With(Aligned(a, b), LAMBDA n :
    With(BigAdd(n.x, n.y), LAMBDA x : Round(x, n.e)))

FLess(a, b) == With(Aligned(a, b), LAMBDA n : BigCmp(n.x, n.y) = -1)

\* |a - b|
FDist(a, b) ==
    With(Aligned(a, b), LAMBDA n :
    With(IF BigCmp(n.x, n.y) >= 0 THEN BigSub(n.x, n.y) ELSE BigSub(n.y, n.x),
         LAMBDA x : Round(x, n.e)))

FMax(a, b) == IF FLess(a, b) THEN b ELSE a

\* one more bit of the quotient v.q of a division by d with the rest v.r
DivideBit(v, d) ==
    LET r2 == Shl(v.r, 1)
        q2 == Shl(v.q, 1)
    IN  IF BigCmp(r2, d) >= 0
        THEN [q |-> BigAdd(q2, <<1>>), r |-> BigSub(r2, d)]
        ELSE [q |-> q2, r |-> r2]

\* k more bits, k >= 1 (halved as in SumOver)
RECURSIVE Divide(_, _, _)
Divide(s, d, k) ==
    IF k = 1 THEN DivideBit(s, d)
    ELSE With(Divide(s, d, k \div 2), LAMBDA v : Divide(v, d, k - k \div 2))

\* a / b for b # 0: 56 bits of the quotient of the mantissas after the first,
\* and a last bit that is 1 when the division left a rest
FDiv(a, b) ==
    IF a.m = <<>> THEN a
    ELSE With(IF BigCmp(a.m, b.m) >= 0
              THEN [q |-> <<1>>, r |-> BigSub(a.m, b.m)]
              ELSE [q |-> <<>>, r |-> a.m], LAMBDA s0 :
         With(Divide(s0, b.m, 56), LAMBDA t :
         With(Shl(t.q, 1), LAMBDA q2 :
         With(BigAdd(q2, IF t.r = <<>> THEN <<>> ELSE <<1>>), LAMBDA x :
              Round(x, a.e - b.e - 57)))))

\* int64(a) for a >= 0: the integer part
Trunc(a) ==
    IF a.m = <<>> THEN 0
    ELSE With(IF a.e >= 0 THEN Shl(a.m, a.e) ELSE Shr(a.m, 0 - a.e),
              LAMBDA x : BigToInt(x))

\* float64(a) / float64(b) of two integers, b > 0
FRatio(a, b) == With(Float(a), LAMBDA x : With(Float(b), LAMBDA y : FDiv(x, y)))

-----------------------------------------------------------------------------
(* internal/metrics: Collector *)

\* sum of one resource over the containers of a pod-metrics item
RECURSIVE SumContainers(_, _)
SumContainers(containers, res) ==
    IF containers = <<>> THEN 0
    ELSE containers[1][res] + SumContainers(Tail(containers), res)

\* the loop of CollectWorkloadMetrics over podMetrics.Items: totalCPU and totalMemory
\* are declared before the loop and never reset, so every item adds to what the
\* items before it left
RECURSIVE collectItems(_, _, _)
collectItems(items, totalCPU, totalMemory) ==
    IF items = <<>> THEN <<>>
    ELSE LET cpu == totalCPU + SumContainers(items[1].Containers, "cpu")
             mem == totalMemory + SumContainers(items[1].Containers, "memory")
         IN  <<[CPUUsage |-> cpu, MemoryUsage |-> mem, Timestamp |-> items[1].Timestamp]>>
             \o collectItems(Tail(items), cpu, mem)

\* CollectWorkloadMetrics asking the metrics API once more when the List call failed
CollectWorkloadMetrics_Retries(podMetrics) ==
    IF podMetrics.err # "nil"
    THEN [metrics |-> <<>>, err |-> "failed to get pod metrics: " \o podMetrics.err,
          calls |-> <<"PodMetricses.List", "PodMetricses.List">>]
    ELSE [metrics |-> <<[Usage |-> collectItems(podMetrics.Items, 0, 0)]>>, err |-> "nil",
          calls |-> <<"PodMetricses.List">>]

\* Collector.CollectWorkloadMetrics: one List call, whose answer is podMetrics; its
\* error is wrapped and returned
CollectWorkloadMetrics(podMetrics) ==
    IF podMetrics.err # "nil"
    THEN [metrics |-> <<>>, err |-> "failed to get pod metrics: " \o podMetrics.err,
          calls |-> <<"PodMetricses.List">>]
    ELSE [metrics |-> <<[Usage |-> collectItems(podMetrics.Items, 0, 0)]>>, err |-> "nil",
          calls |-> <<"PodMetricses.List">>]

-----------------------------------------------------------------------------
(* internal/metrics: Analyzer *)

\* the float64 constants 100.0, 500.0, 1.0, 1.5, 1.1 and 1.2 of the Analyzer
Hundred == Float(100)

FiveHundred == Float(500)

One == Float(1)

OnePointFive == FRatio(3, 2)

OnePointOne == FRatio(11, 10)

OnePointTwo == FRatio(12, 10)

\* int64(float64(avg) / (float64(TargetUtilization) / 100.0))
targetCPUOf(avg, targetUtilization) ==
    With(Float(avg), LAMBDA a :
    With(FRatio(targetUtilization, 100), LAMBDA u :
    With(FDiv(a, u), LAMBDA t : Trunc(t))))

\* the limit taken from the peak alone: int64(float64(peak) * 1.1)
limitValueOf_PeakOnly(targetCPU, peak) ==
    With(Float(peak), LAMBDA p :
    With(FMul(p, OnePointOne), LAMBDA y : Trunc(y)))

\* int64(math.Max(float64(targetCPU) * 1.5, float64(peak) * 1.1))
limitValueOf(targetCPU, peak) ==
    With(Float(targetCPU), LAMBDA t :
    With(Float(peak), LAMBDA p :
    With(FMul(t, OnePointFive), LAMBDA x :
    With(FMul(p, OnePointOne), LAMBDA y :
    With(FMax(x, y), LAMBDA l : Trunc(l))))))

\* bufferMultiplier := 1.0 + float64(BufferPercent) / 100.0, and
\* int64(float64(peak) * bufferMultiplier)
targetMemoryOf(peak, bufferPercent) ==
    With(Float(peak), LAMBDA p :
    With(FRatio(bufferPercent, 100), LAMBDA f :
    With(FAdd(One, f), LAMBDA bufferMultiplier :
    With(FMul(p, bufferMultiplier), LAMBDA t : Trunc(t)))))

\* int64(float64(v) * 1.2)
TimesOnePointTwo(v) ==
    With(Float(v), LAMBDA t :
    With(FMul(t, OnePointTwo), LAMBDA l : Trunc(l)))

\* usage.CPUUsage.MilliValue() or usage.MemoryUsage.Value() of a sample
ValueOf(sample, field) ==
    IF field = "cpu" THEN MilliValue(sample.CPUUsage) ELSE sample.MemoryUsage

\* the loop's peak: the largest value, 0 when none exceeds it
PeakOf(usage, field) ==
    With({0} \cup {ValueOf(usage[i], field) : i \in DOMAIN usage}, LAMBDA values :
        CHOOSE peak \in values : \A v \in values : v <= peak)

\* the loop's total, from place i on
RECURSIVE TotalOf(_, _, _)
TotalOf(usage, field, i) ==
    IF i > Len(usage) THEN 0
    ELSE ValueOf(usage[i], field) + TotalOf(usage, field, i + 1)

\* the min/max constraints with the upper one left out
constrain_MinOnly(targetCPU, minCPU, maxCPU) ==
    IF targetCPU < minCPU THEN minCPU ELSE targetCPU

\* "Apply min/max constraints": first the lower bound, then the upper one
constrain(targetCPU, minCPU, maxCPU) ==
    LET raised == IF targetCPU < minCPU THEN minCPU ELSE targetCPU
    IN  IF raised > maxCPU THEN maxCPU ELSE raised

\* Analyzer.calculateCPURecommendation: requests and limits in milli-cores
calculateCPURecommendation(metrics, policy) ==
    With(PeakOf(metrics.Usage, "cpu"), LAMBDA peak :
    With(TotalOf(metrics.Usage, "cpu", 1) \div Len(metrics.Usage), LAMBDA avg :
    With(targetCPUOf(avg, policy.TargetUtilization), LAMBDA target0 :
    With(constrain(target0, ParseMilli(policy.Min), ParseMilli(policy.Max)),
         LAMBDA targetCPU :
        [Request |-> targetCPU,
         Limit   |-> limitValueOf(targetCPU, peak),
         reason  |-> [avg |-> avg, peak |-> peak, target |-> targetCPU]]))))

\* Analyzer.calculateMemoryRecommendation: requests and limits in bytes
calculateMemoryRecommendation(metrics, policy) ==
    With(PeakOf(metrics.Usage, "memory"), LAMBDA peak :
    With(TotalOf(metrics.Usage, "memory", 1) \div Len(metrics.Usage), LAMBDA avg :
    With(targetMemoryOf(peak, policy.BufferPercent), LAMBDA targetMemory :
        [Request |-> targetMemory,
         Limit   |-> TimesOnePointTwo(targetMemory),
         reason  |-> [avg |-> BinaryString(avg), peak |-> BinaryString(peak),
                      buffer |-> policy.BufferPercent]])))

\* sum += v for the values at the places lo..hi, in this order (the range is
\* halved so that the evaluation does not nest as deep as the series is long)
RECURSIVE SumOver(_, _, _, _)
SumOver(values, lo, hi, sum) ==
    IF lo > hi THEN sum
    ELSE IF lo = hi THEN FAdd(sum, values[lo])
    ELSE With(SumOver(values, lo, (lo + hi) \div 2, sum), LAMBDA s :
              SumOver(values, (lo + hi) \div 2 + 1, hi, s))

\* variance += math.Pow(v - mean, 2) for the values at the places lo..hi
RECURSIVE SquaresOver(_, _, _, _, _)
SquaresOver(values, mean, lo, hi, variance) ==
    IF lo > hi THEN variance
    ELSE IF lo = hi
    THEN With(FDist(values[lo], mean), LAMBDA d :
         With(FMul(d, d), LAMBDA p : FAdd(variance, p)))
    ELSE With(SquaresOver(values, mean, lo, (lo + hi) \div 2, variance), LAMBDA s :
              SquaresOver(values, mean, (lo + hi) \div 2 + 1, hi, s))

\* Analyzer.calculateVariance of float64 values
calculateVariance(values) ==
    IF Len(values) = 0 THEN Float(0)
    ELSE With(Float(Len(values)), LAMBDA n :
         With(SumOver(values, 1, Len(values), Float(0)), LAMBDA sum :
         With(FDiv(sum, n), LAMBDA mean :
         With(SquaresOver(values, mean, 1, Len(values), Float(0)), LAMBDA variance :
              FDiv(variance, n)))))

\* calculateConfidence taking the variance of the memory usages
calculateConfidence_OfMemory(metrics) ==
    LET dataPoints == Len(metrics.Usage)
    IN  IF dataPoints < 5 THEN 30
        ELSE IF dataPoints < 20 THEN 60
        ELSE With([i \in 1..dataPoints |-> Float(metrics.Usage[i].MemoryUsage)],
                  LAMBDA memValues :
             With(calculateVariance(memValues), LAMBDA variance :
                 IF FLess(variance, Hundred) THEN 90
                 ELSE IF FLess(variance, FiveHundred) THEN 70
                 ELSE 50))

\* Analyzer.calculateConfidence, in hundredths (0.3 is 30)
calculateConfidence(metrics) ==
    LET dataPoints == Len(metrics.Usage)
    IN  IF dataPoints < 5 THEN 30
        ELSE IF dataPoints < 20 THEN 60
        ELSE With([i \in 1..dataPoints |->
                     Float(MilliValue(metrics.Usage[i].CPUUsage))], LAMBDA cpuValues :
             With(calculateVariance(cpuValues), LAMBDA variance :
                 IF FLess(variance, Hundred) THEN 90
                 ELSE IF FLess(variance, FiveHundred) THEN 70
                 ELSE 50))

\* GenerateRecommendation refusing a series of fewer than two samples
GenerateRecommendation_NeedsTwo(metrics, policy) ==
    IF Len(metrics.Usage) < 2
    THEN [rec |-> <<>>, err |-> "no usage data available"]
    ELSE With(calculateCPURecommendation(metrics, policy.Cpu), LAMBDA cpuRec :
         With(calculateMemoryRecommendation(metrics, policy.Memory), LAMBDA memRec :
         With(calculateConfidence(metrics), LAMBDA confidence :
             [rec |-> <<[CPURequest    |-> cpuRec.Request,
                         CPULimit      |-> cpuRec.Limit,
                         MemoryRequest |-> memRec.Request,
                         MemoryLimit   |-> memRec.Limit,
                         Reason        |-> [cpu |-> cpuRec.reason, memory |-> memRec.reason],
                         Confidence    |-> confidence]>>,
              err |-> "nil"])))

\* Analyzer.GenerateRecommendation
GenerateRecommendation(metrics, policy) ==
    IF Len(metrics.Usage) = 0
    THEN [rec |-> <<>>, err |-> "no usage data available"]
    ELSE With(calculateCPURecommendation(metrics, policy.Cpu), LAMBDA cpuRec :
         With(calculateMemoryRecommendation(metrics, policy.Memory), LAMBDA memRec :
         With(calculateConfidence(metrics), LAMBDA confidence :
             [rec |-> <<[CPURequest    |-> cpuRec.Request,
                         CPULimit      |-> cpuRec.Limit,
                         MemoryRequest |-> memRec.Request,
                         MemoryLimit   |-> memRec.Limit,
                         Reason        |-> [cpu |-> cpuRec.reason, memory |-> memRec.reason],
                         Confidence    |-> confidence]>>,
              err |-> "nil"])))

-----------------------------------------------------------------------------
(* The inputs of a pass *)

\* sequences over S of length 0..n
SeqUpTo(S, n) == UNION {[1..k -> S] : k \in 0..n}

\* the pod-metrics item the metrics API reports for a pod of the target: two
\* containers, CPU in micro-cores (150500 in all, 151m rounded up), memory in
\* bytes (1.5Mi in all)
PodItems ==
    {[Containers |-> <<[cpu |-> 100500, memory |-> 1048576],
                       [cpu |-> 50000,  memory |-> 524288]>>,
      Timestamp  |-> 1]}

\* what PodMetricses(ns).List answers: an error, or up to MaxPods items
PodMetricsAnswers ==
    {[err |-> "metrics API unavailable", Items |-> <<>>]}
    \cup {[err |-> "nil", Items |-> s] : s \in SeqUpTo(PodItems, MaxPods)}

\* what r.Get answers: the object, NotFound, or another error
GetAnswers == {"nil", "NotFound", "InfraError"}

\* everything present, no metrics yet
EnvQuiet ==
    [optimizerGet |-> "nil", deployGet |-> "nil",
     podMetrics |-> [err |-> "nil", Items |-> <<>>], updateErr |-> "nil"]

\* The answers of the API server and of the metrics API to one pass.  A call the
\* pass never reaches (the ones after a failed Get, the status update after a
\* failed lookup) has no answer: its field is held at EnvQuiet's value.
Envs ==
    {e \in [optimizerGet : GetAnswers,
            deployGet    : GetAnswers,
            podMetrics   : PodMetricsAnswers,
            updateErr    : {"nil", "UpdateError"}] :
        /\ e.optimizerGet # "nil" =>
              e.deployGet = EnvQuiet.deployGet /\ e.updateErr = EnvQuiet.updateErr
        /\ e.deployGet # "nil" => e.podMetrics = EnvQuiet.podMetrics
        /\ e.deployGet = "InfraError" => e.updateErr = EnvQuiet.updateErr}

\* the answers of e to the calls a pass makes, the others at EnvQuiet's value
Answered(e) ==
    IF e.optimizerGet # "nil" THEN [EnvQuiet EXCEPT !.optimizerGet = e.optimizerGet]
    ELSE IF e.deployGet = "NotFound" THEN [e EXCEPT !.podMetrics = EnvQuiet.podMetrics]
    ELSE IF e.deployGet = "InfraError"
    THEN [e EXCEPT !.podMetrics = EnvQuiet.podMetrics, !.updateErr = EnvQuiet.updateErr]
    ELSE e

\* the policies of the stored object: CPU bounds hold as strings of the CRD's pattern
Policies ==
    {[Cpu    |-> [Min |-> [num |-> 100, suffix |-> "m"],
                  Max |-> [num |-> 1, suffix |-> ""],
                  TargetUtilization |-> 70],
      Memory |-> [BufferPercent |-> 20]],
     [Cpu    |-> [Min |-> [num |-> 100, suffix |-> "m"],
                  Max |-> [num |-> 400, suffix |-> "m"],
                  TargetUtilization |-> 50],
      Memory |-> [BufferPercent |-> 0]]}

\* The recommendations of every series and policy a pass can meet, computed
\* once: a pass looks its recommendation up here instead of computing it anew.
Recommendations ==
    {[metrics |-> m, policy |-> pol, out |-> GenerateRecommendation(m, pol)] :
        m \in {CollectWorkloadMetrics(a).metrics[1] :
                  a \in {x \in PodMetricsAnswers : x.err = "nil"}},
        pol \in Policies}

\* analyzer.GenerateRecommendation(metrics, policy) as a pass calls it
Recommend(metrics, policy) ==
    (CHOOSE r \in Recommendations : r.metrics = metrics /\ r.policy = policy).out

-----------------------------------------------------------------------------
(* internal/controller: the reconciler's helpers *)

\* ResourceOptimizerStatus of a freshly created object
EmptyStatus == [Conditions |-> <<>>, CurrentRecommendation |-> <<>>]

\* IsNotFound taking every error for a missing object
IsNotFound_AnyError(err) == err # "nil"

\* k8serrors.IsNotFound
IsNotFound(err) == err = "NotFound"

\* IgnoreNotFound handing every error through
IgnoreNotFound_Identity(err) == err

\* client.IgnoreNotFound
IgnoreNotFound(err) == IF IsNotFound(err) THEN "nil" ELSE err

\* index of the first condition of the given type, 0 when there is none
RECURSIVE IndexOfType(_, _, _)
IndexOfType(conditions, condType, i) ==
    IF i > Len(conditions) THEN 0
    ELSE IF conditions[i].Type = condType THEN i
    ELSE IndexOfType(conditions, condType, i + 1)

\* addCondition moving an existing condition of the type to the end of the list
addCondition_MoveToEnd(status, condType, statusType, reason, message, now1, now2) ==
    [status EXCEPT !.Conditions =
        Append(SelectSeq(@, LAMBDA c : c.Type # condType),
               [Type               |-> condType,
                Status             |-> statusType,
                Reason             |-> reason,
                Message            |-> message,
                LastTransitionTime |-> now1])]

\* addCondition appending an entry whether or not the type is present
addCondition_AlwaysAppend(status, condType, statusType, reason, message, now1, now2) ==
    [status EXCEPT !.Conditions =
        Append(@, [Type               |-> condType,
                   Status             |-> statusType,
                   Reason             |-> reason,
                   Message            |-> message,
                   LastTransitionTime |-> now1])]

\* addCondition.  now1 is the metav1.Now() read on entry, now2 the one read again
\* in the branch of an existing condition, which overwrites LastTransitionTime
\* whether or not the status value changed.
addCondition(status, condType, statusType, reason, message, now1, now2) ==
    LET i == IndexOfType(status.Conditions, condType, 1)
    IN  IF i # 0
        THEN LET existingCondition == status.Conditions[i]
                 c1 == IF existingCondition.Status # statusType
                       THEN [existingCondition EXCEPT !.LastTransitionTime = now1]
                       ELSE existingCondition
                 c2 == [c1 EXCEPT !.Status = statusType,
                                  !.Reason = reason,
                                  !.Message = message,
                                  !.LastTransitionTime = now2]
             IN  [status EXCEPT !.Conditions[i] = c2]
        ELSE [status EXCEPT !.Conditions =
                 Append(@, [Type               |-> condType,
                            Status             |-> statusType,
                            Reason             |-> reason,
                            Message            |-> message,
                            LastTransitionTime |-> now1])]

\* A pass in progress: the in-memory object's Status and the calls made so far
Call(p, what) == [p EXCEPT !.trace = Append(@, what)]

\* a call of addCondition on the in-memory object at time t (a pass is short
\* against the one-second resolution of the stored times: both readings of
\* metav1.Now() return t)
Condition(p, condType, statusType, reason, message, t) ==
    [Status |-> addCondition(p.Status, condType, statusType, reason, message, t, t),
     trace  |-> Append(p.trace, "addCondition " \o condType)]

\* updateStatus calling Update a second time
updateStatus_Twice(p, e) ==
    [p       |-> Call(Call(p, "Status().Update"), "Status().Update"),
     err     |-> e.updateErr,
     written |-> IF e.updateErr = "nil" THEN <<p.Status>> ELSE <<>>]

\* updateStatus: r.Status().Update; written holds the status the server stored
updateStatus(p, e) ==
    [p       |-> Call(p, "Status().Update"),
     err     |-> e.updateErr,
     written |-> IF e.updateErr = "nil" THEN <<p.Status>> ELSE <<>>]

\* getDeploymentObject writing the Deployment it has read back to the server
getDeploymentObject_Updates(p, e) ==
    IF e.deployGet # "nil"
    THEN [p |-> Call(p, "Get Deployment"), err |-> e.deployGet]
    ELSE [p   |-> Call(Call(Call(p, "Get Deployment"), "Update Deployment"),
                       "Event DeploymentFound"),
          err |-> "nil"]

\* getDeploymentObject: r.Get of the target, and the DeploymentFound event
getDeploymentObject(p, e) ==
    IF e.deployGet # "nil"
    THEN [p |-> Call(p, "Get Deployment"), err |-> e.deployGet]
    ELSE [p |-> Call(Call(p, "Get Deployment"), "Event DeploymentFound"), err |-> "nil"]

\* the ResourceRecommendation written into the status: quantities as their strings,
\* Confidence as int32(Confidence * 100) (30, 50, 60, 70, 90 for the five scores)
ResourceRecommendation(recommendation, generatedAt) ==
    [CPU         |-> [Request |-> MilliString(recommendation.CPURequest),
                      Limit   |-> MilliString(recommendation.CPULimit)],
     Memory      |-> [Request |-> BinaryString(recommendation.MemoryRequest),
                      Limit   |-> BinaryString(recommendation.MemoryLimit)],
     Confidence  |-> recommendation.Confidence,
     Reason      |-> recommendation.Reason,
     GeneratedAt |-> generatedAt]

\* analyzeAndOptimize
analyzeAndOptimize(p, e, policy, t) ==
    With(CollectWorkloadMetrics(e.podMetrics), LAMBDA c :
    LET p1 == Call(p, "CollectWorkloadMetrics")
    IN  IF c.err # "nil" THEN [p |-> p1, err |-> c.err]
        ELSE IF Len(c.metrics[1].Usage) = 0
        THEN [p   |-> Condition(p1, "OptimizationReady", "False", "NoMetricsData",
                                "Waiting for metrics data to be available", t),
              err |-> "nil"]
        ELSE With(Recommend(c.metrics[1], policy), LAMBDA g :
             LET p2 == Call(p1, "GenerateRecommendation")
             IN  IF g.err # "nil" THEN [p |-> p2, err |-> g.err]
                 ELSE With(ResourceRecommendation(g.rec[1], t), LAMBDA currentRecommendation :
                      LET p3 == Call(p2, "Event RecommendationGenerated")
                          p4 == [p3 EXCEPT !.Status.CurrentRecommendation =
                                    <<currentRecommendation>>]
                      IN  [p   |-> Condition(p4, "OptimizationReady", "True",
                                             "RecommendationGenerated", g.rec[1].Reason, t),
                           err |-> "nil"])))

\* what a pass hands back: ctrl.Result, the error, the pass and the status stored
Return(requeueAfter, err, p, written) ==
    [RequeueAfter |-> requeueAfter, err |-> err, p |-> p, written |-> written]

\* the branch of a missing target returning the error of its status update
targetNotFound_ReturnsUpdateErr(p, e, t) ==
    With(updateStatus(Condition(p, "DeploymentReady", "False", "TargetNotFound",
                      "Target Deployment does not exist yet", t), e), LAMBDA u :
        IF u.err # "nil"
        THEN Return(0, u.err, u.p, u.written)
        ELSE Return(5, "nil", u.p, u.written))

\* targetNotFound asking for no re-run
targetNotFound_NoRequeue(p, e, t) ==
    With(updateStatus(Condition(p, "DeploymentReady", "False", "TargetNotFound",
                      "Target Deployment does not exist yet", t), e), LAMBDA u :
        Return(0, "nil", u.p, u.written))

\* targetNotFound with the medium backoff in place of the short one
targetNotFound_Requeue10(p, e, t) ==
    With(updateStatus(Condition(p, "DeploymentReady", "False", "TargetNotFound",
                      "Target Deployment does not exist yet", t), e), LAMBDA u :
        Return(10, "nil", u.p, u.written))

\* Reconcile, the branch of a target that does not exist: the condition, the
\* status update whose error is dropped, and the re-run after 5 minutes
targetNotFound(p, e, t) ==
    With(updateStatus(Condition(p, "DeploymentReady", "False", "TargetNotFound",
                      "Target Deployment does not exist yet", t), e), LAMBDA u :
        Return(5, "nil", u.p, u.written))

\* the branch of a failed analyzeAndOptimize clearing the recommendation
analysisFailed_ClearsRecommendation(p, err, e, t) ==
    With(updateStatus(Condition([p EXCEPT !.Status.CurrentRecommendation = <<>>],
                                "OptimizationReady", "False", "AnalysisFailed",
                                err, t), e), LAMBDA u :
        Return(10, "nil", u.p, u.written))

\* analysisFailed handing the error back to the caller instead of dropping it
analysisFailed_ReturnsErr(p, err, e, t) ==
    With(updateStatus(Condition(p, "OptimizationReady", "False", "AnalysisFailed",
                      err, t), e), LAMBDA u :
        Return(0, err, u.p, u.written))

\* Reconcile, the branch of a failed analyzeAndOptimize: the condition carrying
\* the error text, the status update whose error is dropped, the re-run after 10
analysisFailed(p, err, e, t) ==
    With(updateStatus(Condition(p, "OptimizationReady", "False", "AnalysisFailed",
                      err, t), e), LAMBDA u :
        Return(10, "nil", u.p, u.written))

\* reconciliationComplete dropping the update's error like the other two branches
reconciliationComplete_DropsErr(p, e, t) ==
    With(updateStatus(Condition(p, "Ready", "True", "AllSubresourcesReady",
                      "All subresources are ready", t), e), LAMBDA u :
        Return(15, "nil", u.p, u.written))

\* Reconcile, after analyzeAndOptimize returned nil: Ready, the status update
\* whose error is returned, the re-run after 15 minutes
reconciliationComplete(p, e, t) ==
    With(updateStatus(Condition(p, "Ready", "True", "AllSubresourcesReady",
                      "All subresources are ready", t), e), LAMBDA u :
        IF u.err # "nil"
        THEN Return(0, u.err, u.p, u.written)
        ELSE Return(15, "nil", u.p, u.written))

\* Reconcile on the stored object obj, with the answers e, at time t
ReconcilePass(obj, e, t) ==
    LET p0 == [Status |-> obj.Status, trace |-> <<"Get ResourceOptimizer">>]
    IN  IF e.optimizerGet # "nil"
        THEN Return(0, IgnoreNotFound(e.optimizerGet), p0, <<>>)
        ELSE With(getDeploymentObject(p0, e), LAMBDA d :
             IF d.err # "nil"
             THEN IF IsNotFound(d.err)
                  THEN targetNotFound(d.p, e, t)
                  ELSE Return(0, d.err, d.p, <<>>)
             ELSE With(analyzeAndOptimize(
                           Condition(d.p, "DeploymentReady", "True", "TargetFound",
                                     "Target Deployment exists", t),
                           e, obj.Spec.Policy, t), LAMBDA a :
                  IF a.err # "nil"
                  THEN analysisFailed(a.p, a.err, e, t)
                  ELSE reconciliationComplete(a.p, e, t)))

-----------------------------------------------------------------------------
(* The state machine *)

\* no pass has run
NoPass ==
    [ran |-> FALSE, RequeueAfter |-> 0, err |-> "nil", trace |-> <<>>, Status |-> EmptyStatus,
     answers |-> EnvQuiet, repeat |-> FALSE]

\* the Analyzer is not called on its own while passes run
NoAnalysis ==
    [metrics |-> [Usage |-> <<>>], policy |-> CHOOSE pol \in Policies : TRUE,
     out |-> <<>>, again |-> <<>>]

\* the Collector is not called on its own while passes run
NoCollection == [answer |-> EnvQuiet.podMetrics, out |-> <<>>, again |-> <<>>]

\* no second resource while the passes of one resource run
NoWorkers == <<>>

Init ==
    /\ resourceOptimizer \in
         {[Spec |-> [Policy |-> pol], Status |-> EmptyStatus] : pol \in Policies}
    /\ env = EnvQuiet
    /\ now = 0
    /\ last = NoPass
    /\ analysis = NoAnalysis
    /\ collection = NoCollection
    /\ workers = NoWorkers

\* time passes between passes
Tick ==
    /\ now < MaxClock
    /\ now' = now + 1
    /\ UNCHANGED <<resourceOptimizer, env, last, analysis, collection, workers>>

\* One call of Reconcile with the answers e: what it stored and what it returned
Pass(e) ==
    \E r \in {ReconcilePass(resourceOptimizer, e, now)} :
        /\ resourceOptimizer' =
             IF r.written # <<>>
             THEN [resourceOptimizer EXCEPT !.Status = r.written[1]]
             ELSE resourceOptimizer
        /\ last' = [ran |-> TRUE, RequeueAfter |-> r.RequeueAfter, err |-> r.err,
                    trace |-> r.p.trace, Status |-> r.p.Status,
                    answers |-> Answered(e),
                    repeat |-> last.ran /\ Answered(e) = last.answers]
        /\ now' = now
        /\ UNCHANGED <<analysis, collection, workers>>

\* a pass, with whatever the API server and the metrics API answer to it
Reconcile == \E e \in Envs : env' = e /\ Pass(e)

Next == Tick \/ Reconcile

Spec == Init /\ [][Next]_vars

-----------------------------------------------------------------------------
(* The passes the work queue runs by itself *)

\* In SpecLive env is what the cluster would answer at this moment, whether or
\* not a pass asks; it changes between passes, and a pass reads it.  The resource
\* exists throughout: reading it works or fails, and it is never reported missing.
\* The clock stands still: a pass reads it only to stamp the conditions and the
\* recommendation, and no branch of the code depends on it.
Worlds ==
    [optimizerGet : GetAnswers \ {"NotFound"},
     deployGet    : GetAnswers,
     podMetrics   : PodMetricsAnswers,
     updateErr    : {"nil", "UpdateError"}]

\* the cluster changes between passes, one answer at a time
EnvChange ==
    /\ \E f \in DOMAIN env : \E x \in {w[f] : w \in Worlds} \ {env[f]} :
          env' = [env EXCEPT ![f] = x]
    /\ UNCHANGED <<resourceOptimizer, now, last, analysis, collection, workers>>

\* The request for a pass is in the work queue: the one of the resource's
\* creation, or the one the previous pass asked for by returning
\* Result.RequeueAfter or an error.
Pending == ~last.ran \/ last.RequeueAfter > 0 \/ last.err # "nil"

\* the work queue hands the pending request to Reconcile
ReconcileScheduled ==
    /\ Pending
    /\ env' = env
    /\ Pass(env)

NextLive == EnvChange \/ ReconcileScheduled

\* a pending request is run eventually
SpecLive == Init /\ [][NextLive]_vars /\ WF_vars(ReconcileScheduled)

-----------------------------------------------------------------------------
(* The Analyzer on its own *)

\* a UsageSample of cpu milli-cores and mem bytes taken at time t
Sample(cpu, mem, t) == [CPUUsage |-> cpu * 1000, MemoryUsage |-> mem, Timestamp |-> t]

\* the samples of the short series: 100m and 100 B, 200m and 500Mi, 101m and
\* 25 B, 7m and 1.5Mi
Samples ==
    {Sample(100, 100, 1), Sample(200, 524288000, 2),
     Sample(101, 25, 3),  Sample(7, 1572864, 4)}

\* n samples of the same CPU usage
Steady(n, cpu) == [Usage |-> [i \in 1..n |-> Sample(cpu, 64, i)]]

\* n samples, the first k of CPU usage lo and the others of hi
TwoLevels(n, k, lo, hi) ==
    [Usage |-> [i \in 1..n |-> Sample(IF i <= k THEN lo ELSE hi, 64, i)]]

\* the series of the given CPU usages
FromMillis(cpus) == [Usage |-> [i \in 1..Len(cpus) |-> Sample(cpus[i], 64, i)]]

\* 20 samples whose mean is 100 and whose variance is 500
Spread20 ==
    <<150, 50, 100, 100, 100, 100, 100, 100, 100, 100,
      100, 100, 100, 100, 100, 100, 100, 100, 50, 150>>

\* 27 samples whose mean is 2925/27 and whose variance is 500
Uneven27 ==
    <<90, 80, 130, 100, 105, 120, 130, 80, 100, 130, 90, 140, 110, 150,
      80, 90, 140, 80, 110, 95, 120, 130, 90, 110, 95, 150, 80>>

\* The series the Analyzer is called on: the short ones, the series 100m, 200m,
\* 300m, and series of 4, 5, 19, 20 and 27 samples on both sides of the sample
\* counts and of the variances that calculateConfidence tells apart.
Series ==
    {[Usage |-> u] : u \in SeqUpTo(Samples, MaxSamples)}
    \cup {[Usage |-> <<Sample(100, 100, 1), Sample(200, 524288000, 2),
                       Sample(300, 1572864, 3)>>]}
    \cup {Steady(4, 100), Steady(5, 100), TwoLevels(5, 2, 50, 150),
          Steady(19, 100), TwoLevels(19, 9, 50, 150), Steady(20, 100),
          TwoLevels(20, 10, 100, 119), TwoLevels(20, 10, 100, 120),
          TwoLevels(20, 10, 100, 144), TwoLevels(20, 10, 100, 145),
          FromMillis(Spread20), FromMillis(Uneven27)}

\* a Policy: CPU bounds as strings of the CRD's pattern, TargetUtilization in
\* 1..100, BufferPercent in 0..100
PolicyOf(min, max, targetUtilization, bufferPercent) ==
    [Cpu    |-> [Min |-> min, Max |-> max, TargetUtilization |-> targetUtilization],
     Memory |-> [BufferPercent |-> bufferPercent]]

\* The policies the Analyzer is called with, in a row.  The CRD does not relate
\* Min to Max: the last policy has Min above Max.
AnalyzerPolicies ==
    <<PolicyOf([num |-> 100, suffix |-> "m"], [num |-> 800, suffix |-> "m"], 50, 20),
      PolicyOf([num |-> 300, suffix |-> "m"], [num |-> 1, suffix |-> ""], 70, 15),
      PolicyOf([num |-> 150, suffix |-> "m"], [num |-> 150, suffix |-> "m"], 100, 0),
      PolicyOf([num |-> 0, suffix |-> ""], [num |-> 100, suffix |-> ""], 1, 100),
      PolicyOf([num |-> 500, suffix |-> "m"], [num |-> 150, suffix |-> "m"], 7, 13)>>

\* the policy after pol in the row, the first after the last
NextPolicy(pol) ==
    LET i == CHOOSE k \in DOMAIN AnalyzerPolicies : AnalyzerPolicies[k] = pol
    IN  AnalyzerPolicies[(i % Len(AnalyzerPolicies)) + 1]

\* the same CPU usages with other memory usages, taken at other times
OtherMemory(metrics) ==
    [Usage |-> [i \in DOMAIN metrics.Usage |->
                  [metrics.Usage[i] EXCEPT !.MemoryUsage = @ + 8 * i,
                                           !.Timestamp = @ + 60]]]

\* The inputs of a second call: (metrics, pol) once more, and the ones that
\* differ from it in one part: the memory usages and the times, the CPU policy,
\* or the memory policy.
Variants(metrics, pol) ==
    {[metrics |-> metrics, policy |-> pol],
     [metrics |-> OtherMemory(metrics), policy |-> pol],
     [metrics |-> metrics, policy |-> [pol EXCEPT !.Cpu = NextPolicy(pol).Cpu]],
     [metrics |-> metrics, policy |-> [pol EXCEPT !.Memory = NextPolicy(pol).Memory]]}

InitAnalyzer ==
    /\ analysis \in {[metrics |-> m, policy |-> AnalyzerPolicies[k],
                       out |-> <<>>, again |-> <<>>] :
                         m \in Series, k \in DOMAIN AnalyzerPolicies}
    /\ resourceOptimizer = [Spec |-> [Policy |-> analysis.policy], Status |-> EmptyStatus]
    /\ env = EnvQuiet
    /\ now = 0
    /\ last = NoPass
    /\ collection = NoCollection
    /\ workers = NoWorkers

\* analyzer.GenerateRecommendation(metrics, policy)
Generate ==
    /\ analysis.out = <<>>
    /\ \E r \in {GenerateRecommendation(analysis.metrics, analysis.policy)} :
          analysis' = [analysis EXCEPT !.out = <<r>>]
    /\ UNCHANGED <<resourceOptimizer, env, now, last, collection, workers>>

\* a second call of the same Analyzer, on the same input or on one that differs
\* in one part
GenerateAgain ==
    /\ analysis.out # <<>>
    /\ analysis.again = <<>>
    /\ \E v \in Variants(analysis.metrics, analysis.policy) :
       \E r \in {GenerateRecommendation(v.metrics, v.policy)} :
          analysis' = [analysis EXCEPT !.again =
                          <<[metrics |-> v.metrics, policy |-> v.policy, out |-> r]>>]
    /\ UNCHANGED <<resourceOptimizer, env, now, last, collection, workers>>

NextAnalyzer == Generate \/ GenerateAgain

SpecAnalyzer == InitAnalyzer /\ [][NextAnalyzer]_vars

-----------------------------------------------------------------------------
(* The Collector on its own *)

\* The pod-metrics items of the Collector's calls: the pod of PodItems, a pod of
\* one container (200m, 2Mi), a pod that reports no container, and a pod of one
\* small container (7m, 64 B); each with its own timestamp.
CollectorItems ==
    PodItems
    \cup {[Containers |-> <<[cpu |-> 200000, memory |-> 2097152]>>, Timestamp |-> 2],
          [Containers |-> <<>>, Timestamp |-> 3],
          [Containers |-> <<[cpu |-> 7000, memory |-> 64]>>, Timestamp |-> 4]}

\* what PodMetricses(ns).List answers: an error, or up to n items
CollectorAnswers(n) ==
    {[err |-> "metrics API unavailable", Items |-> <<>>]}
    \cup {[err |-> "nil", Items |-> s] : s \in SeqUpTo(CollectorItems, n)}

InitCollector ==
    /\ collection \in {[answer |-> a, out |-> <<>>, again |-> <<>>] :
                          a \in CollectorAnswers(MaxItems)}
    /\ resourceOptimizer \in
         {[Spec |-> [Policy |-> pol], Status |-> EmptyStatus] : pol \in Policies}
    /\ env = EnvQuiet
    /\ now = 0
    /\ last = NoPass
    /\ analysis = NoAnalysis
    /\ workers = NoWorkers

\* collector.CollectWorkloadMetrics(ctx, deployment), the List call answering
\* collection.answer
Collect ==
    /\ collection.out = <<>>
    /\ \E r \in {CollectWorkloadMetrics(collection.answer)} :
          collection' = [collection EXCEPT !.out = <<r>>]
    /\ UNCHANGED <<resourceOptimizer, env, now, last, analysis, workers>>

\* a second call of the same Collector, the List call answering a
CollectAgain ==
    /\ collection.out # <<>>
    /\ collection.again = <<>>
    /\ \E a \in CollectorAnswers(1) :
       \E r \in {CollectWorkloadMetrics(a)} :
          collection' = [collection EXCEPT !.again = <<[answer |-> a, out |-> r]>>]
    /\ UNCHANGED <<resourceOptimizer, env, now, last, analysis, workers>>

NextCollector == Collect \/ CollectAgain

SpecCollector == InitCollector /\ [][NextCollector]_vars

-----------------------------------------------------------------------------
(* Reading a status and a pass *)

\* the conditions of the given type, in order
RECURSIVE CondsOf(_, _)
CondsOf(conditions, condType) ==
    IF conditions = <<>> THEN <<>>
    ELSE (IF conditions[1].Type = condType THEN <<conditions[1]>> ELSE <<>>)
         \o CondsOf(Tail(conditions), condType)

\* the status holds exactly one condition of the type, with this value and reason
HasCond(status, condType, statusType, reason) ==
    LET cs == CondsOf(status.Conditions, condType)
    IN  Len(cs) = 1 /\ cs[1].Status = statusType /\ cs[1].Reason = reason

\* how often the pass made the call
Count(trace, what) == Cardinality({i \in DOMAIN trace : trace[i] = what})

\* the kinds of pass, by the answers the most recent pass got
Loaded       == last.ran /\ env.optimizerGet = "nil"
TargetAbsent == Loaded /\ env.deployGet = "NotFound"
TargetError  == Loaded /\ env.deployGet = "InfraError"
TargetFound  == Loaded /\ env.deployGet = "nil"
QueryFailed  == TargetFound /\ env.podMetrics.err # "nil"
NoMetrics    == TargetFound /\ env.podMetrics.err = "nil" /\ env.podMetrics.Items = <<>>
HasMetrics   == TargetFound /\ env.podMetrics.err = "nil" /\ env.podMetrics.Items # <<>>
UpdateOk     == env.updateErr = "nil"

ConditionTypes == {"DeploymentReady", "OptimizationReady", "Ready"}

-----------------------------------------------------------------------------
(* C1 *)

\* C1: across any step, a condition present before and after has a changed
\* lastTransitionTime if and only if its status value changed: a changed value
\* moves the time (once the clock has moved past the old time), and re-applying
\* the same value, or re-running a pass, leaves the time alone.
C1_TransitionTimeIffValueChanged ==
    [][\A ct \in ConditionTypes :
         LET old == CondsOf(resourceOptimizer.Status.Conditions, ct)
             new == CondsOf(resourceOptimizer'.Status.Conditions, ct)
         IN  (old # <<>> /\ new # <<>>) =>
               /\ (new[1].Status # old[1].Status /\ now' > old[1].LastTransitionTime)
                     => new[1].LastTransitionTime # old[1].LastTransitionTime
               /\ (new[1].Status = old[1].Status)
                     => new[1].LastTransitionTime = old[1].LastTransitionTime]_vars

-----------------------------------------------------------------------------
(* C2 *)

\* C2: a pass that loads the resource and finds no target sets
\* DeploymentReady=False/TargetNotFound, calls the status update once (and the
\* stored status then carries the condition), returns no error, asks for a re-run
\* after 5 minutes, and calls neither the Collector nor the Analyzer.
C2_TargetAbsentPass ==
    TargetAbsent =>
        /\ HasCond(last.Status, "DeploymentReady", "False", "TargetNotFound")
        /\ Count(last.trace, "Status().Update") = 1
        /\ UpdateOk => HasCond(resourceOptimizer.Status, "DeploymentReady", "False",
                               "TargetNotFound")
        /\ last.err = "nil"
        /\ last.RequeueAfter = 5
        /\ Count(last.trace, "CollectWorkloadMetrics") = 0
        /\ Count(last.trace, "GenerateRecommendation") = 0

\* a target-absent pass came after a pass that had found the target
C2_Witness ==
    /\ TargetAbsent
    /\ UpdateOk
    /\ HasCond(resourceOptimizer.Status, "DeploymentReady", "False", "TargetNotFound")
    /\ CondsOf(resourceOptimizer.Status.Conditions, "OptimizationReady") # <<>>

-----------------------------------------------------------------------------
(* C3 *)

\* C3: a pass that finds the target and gets an empty usage series sets
\* OptimizationReady=False/NoMetricsData, calls the status update once, returns
\* no error when the update succeeds, does not call the Analyzer, and updates no
\* condition after that one: OptimizationReady is the last addCondition call.
C3_NoMetricsPassStops ==
    NoMetrics =>
        /\ HasCond(last.Status, "OptimizationReady", "False", "NoMetricsData")
        /\ Count(last.trace, "Status().Update") = 1
        /\ UpdateOk => last.err = "nil"
        /\ Count(last.trace, "GenerateRecommendation") = 0
        /\ Count(last.trace, "addCondition Ready") = 0

-----------------------------------------------------------------------------
(* C4 *)

\* C4: a pass sets Ready=True/AllSubresourcesReady only if in that pass the Analyzer
\* produced a recommendation, it was written into the status, and
\* OptimizationReady was set to True/RecommendationGenerated; a pass that ends
\* with OptimizationReady=False does not set Ready=True.
C4_ReadyOnlyWithRecommendation ==
    (last.ran /\ Count(last.trace, "addCondition Ready") > 0) =>
        /\ Count(last.trace, "GenerateRecommendation") = 1
        /\ last.Status.CurrentRecommendation # <<>>
        /\ HasCond(last.Status, "OptimizationReady", "True", "RecommendationGenerated")

-----------------------------------------------------------------------------
(* C5 *)

\* C5: a pass that finds the target and whose usage query fails sets
\* DeploymentReady=True/TargetFound and OptimizationReady=False/AnalysisFailed with
\* the error text as message, calls the status update once, returns no error and
\* asks for a re-run after 10 minutes.  (The Analyzer's only error, an empty
\* series, never reaches it: analyzeAndOptimize returns before on an empty series.)
C5_AnalysisFailedPass ==
    QueryFailed =>
        /\ HasCond(last.Status, "DeploymentReady", "True", "TargetFound")
        /\ HasCond(last.Status, "OptimizationReady", "False", "AnalysisFailed")
        /\ CondsOf(last.Status.Conditions, "OptimizationReady")[1].Message
             = "failed to get pod metrics: " \o env.podMetrics.err
        /\ Count(last.trace, "Status().Update") = 1
        /\ UpdateOk => resourceOptimizer.Status = last.Status
        /\ last.err = "nil"
        /\ last.RequeueAfter = 10

\* a failed usage query after a pass that had generated a recommendation
C5_Witness ==
    /\ QueryFailed
    /\ HasCond(resourceOptimizer.Status, "OptimizationReady", "False", "AnalysisFailed")
    /\ resourceOptimizer.Status.CurrentRecommendation # <<>>

-----------------------------------------------------------------------------
(* C6 *)

-----------------------------------------------------------------------------
(* C7 *)

-----------------------------------------------------------------------------
(* C8 *)

-----------------------------------------------------------------------------
(* C9 *)

\* C9: a pass whose resource is not found returns no error and no re-run, and
\* makes no call after the Get: no target lookup, no event, no usage query, no
\* condition, no status update; the status is left as it was.
C9_ResourceNotFoundSilent ==
    (last.ran /\ env.optimizerGet = "NotFound") =>
        /\ last.err = "nil"
        /\ last.RequeueAfter = 0
        /\ last.trace = <<"Get ResourceOptimizer">>
        /\ last.Status = resourceOptimizer.Status

\* the resource went away after a pass had written its status
C9_Witness ==
    /\ last.ran
    /\ env.optimizerGet = "NotFound"
    /\ resourceOptimizer.Status.Conditions # <<>>

-----------------------------------------------------------------------------
(* C10 *)

\* The passes get favourable answers: a pass makes the usage query only after it
\* read its resource and found the target, so the query of a pass returns a
\* non-empty series when the resource is read, the target exists and the metrics
\* API lists at least one pod; and the status update succeeds.
C10_Favourable ==
    /\ env.optimizerGet = "nil"
    /\ env.deployGet = "nil"
    /\ env.podMetrics.err = "nil"
    /\ env.podMetrics.Items # <<>>
    /\ env.updateErr = "nil"

\* the stored status shows each of the three conditions once, True, and a
\* recommendation
C10_Converged ==
    /\ \A condType \in ConditionTypes :
          LET cs == CondsOf(resourceOptimizer.Status.Conditions, condType)
          IN  Len(cs) = 1 /\ cs[1].Status = "True"
    /\ resourceOptimizer.Status.CurrentRecommendation # <<>>

\* C10: from any reachable stored status (the ones left by target-absent,
\* lookup-error, query-failed and no-metrics passes and by failed updates
\* included), if from some point on the target exists, the usage query returns a
\* non-empty series and status updates succeed, then with the pending re-runs
\* run, the stored status eventually shows DeploymentReady, OptimizationReady
\* and Ready all True and a recommendation, and stays so.
C10_SelfHealing == <>[]C10_Favourable => <>[]C10_Converged

\* the cluster answers favourably, the stored status has converged, and the pass
\* that stored it asked for the next one
C10_Witness ==
    /\ C10_Favourable
    /\ C10_Converged
    /\ last.ran
    /\ last.err = "nil"
    /\ last.RequeueAfter = 15
    /\ last.Status = resourceOptimizer.Status

-----------------------------------------------------------------------------
(* C11 *)

\* what a reader of the status sees apart from the times: the conditions as
\* (type, status, reason, message) and the recommendation's values
Observed(status) ==
    [Conditions     |-> {<<c.Type, c.Status, c.Reason, c.Message>> :
                            c \in {status.Conditions[i] : i \in DOMAIN status.Conditions}},
     Recommendation |-> [i \in DOMAIN status.CurrentRecommendation |->
                           [CPU        |-> status.CurrentRecommendation[i].CPU,
                            Memory     |-> status.CurrentRecommendation[i].Memory,
                            Confidence |-> status.CurrentRecommendation[i].Confidence,
                            Reason     |-> status.CurrentRecommendation[i].Reason]]]

\* no two entries of the status's conditions have the same type
NoDuplicates(status) ==
    \A i, j \in DOMAIN status.Conditions :
        status.Conditions[i].Type = status.Conditions[j].Type => i = j

\* C11: a pass that gets the same answers as the pass before it (same resource
\* and policy, same target presence, same usage samples, same update outcome)
\* leaves the same conditions (type, status, reason, message) and the same
\* recommendation values as the first pass left, in the stored status and in
\* the object the pass worked on, and no condition entry twice.
C11_PassIdempotent ==
    [][(last.ran /\ last'.ran /\ now' = now /\ last'.answers = last.answers) =>
          /\ Observed(resourceOptimizer'.Status) = Observed(resourceOptimizer.Status)
          /\ Observed(last'.Status) = Observed(last.Status)
          /\ NoDuplicates(resourceOptimizer'.Status)
          /\ NoDuplicates(last'.Status)]_vars

\* a pass with a recommendation was repeated with the same answers, and both
\* stored their status
C11_Witness ==
    /\ last.repeat
    /\ HasMetrics
    /\ UpdateOk
    /\ resourceOptimizer.Status = last.Status
    /\ resourceOptimizer.Status.CurrentRecommendation # <<>>
    /\ Len(resourceOptimizer.Status.Conditions) = 3

-----------------------------------------------------------------------------
(* C12 *)

\* a call of addCondition on the stored status by itself, before the passes
\* start: it builds the statuses of distinct types, in any order, that the
\* passes then start from
AddCondition ==
    /\ ~last.ran
    /\ \E condType \in ConditionTypes, statusType \in {"True", "False"} :
          resourceOptimizer' =
             [resourceOptimizer EXCEPT !.Status =
                 addCondition(@, condType, statusType, "Seeded", "Seeded", now, now)]
    /\ UNCHANGED <<env, now, last, analysis, collection, workers>>

NextConditions == AddCondition \/ Reconcile

SpecConditions == Init /\ [][NextConditions]_vars

\* the types of the status's conditions, in their order
TypesOf(status) == [i \in DOMAIN status.Conditions |-> status.Conditions[i].Type]

\* the types of the status new that the status old has too, in new's order
KeptTypes(old, new) ==
    SelectSeq(TypesOf(new),
              LAMBDA condType : \E i \in DOMAIN old.Conditions :
                                   old.Conditions[i].Type = condType)

\* C12: after any sequence of addCondition calls and passes, from a status of
\* distinct types, no two conditions of the stored status or of the object a
\* pass worked on have the same type, and the conditions that were present
\* before a call or a pass keep their order.
C12_ConditionNamesUnique ==
    [][/\ NoDuplicates(resourceOptimizer'.Status)
       /\ NoDuplicates(last'.Status)
       /\ KeptTypes(resourceOptimizer.Status, resourceOptimizer'.Status)
             = TypesOf(resourceOptimizer.Status)
       /\ last' # last =>
             KeptTypes(resourceOptimizer.Status, last'.Status)
                = TypesOf(resourceOptimizer.Status)]_vars

\* a pass has set all three conditions on a status that held them in another
\* order than the pass sets them in
C12_Witness ==
    /\ last.ran
    /\ HasMetrics
    /\ UpdateOk
    /\ TypesOf(resourceOptimizer.Status) = <<"Ready", "OptimizationReady", "DeploymentReady">>
    /\ \A i \in DOMAIN resourceOptimizer.Status.Conditions :
          resourceOptimizer.Status.Conditions[i].Reason # "Seeded"

-----------------------------------------------------------------------------
(* C13 *)

\* the calls of a pass that change nothing on the server: the reads, and what
\* works on the object in memory
ReadCalls ==
    {"Get ResourceOptimizer", "Get Deployment", "CollectWorkloadMetrics",
     "GenerateRecommendation"}
    \cup {"addCondition " \o condType : condType \in ConditionTypes}

\* the writes of a pass
WritesOf(trace) == {trace[i] : i \in DOMAIN trace} \ ReadCalls

\* C13: on every path, the writes of a pass are updates of the optimization
\* resource's own status and events recorded on it: no pass creates, updates,
\* patches or deletes the target workload.
C13_RecommendOnly ==
    WritesOf(last.trace) \subseteq
        {"Status().Update", "Event DeploymentFound", "Event RecommendationGenerated"}

\* a pass has found the target, generated a recommendation and stored it
C13_Witness ==
    /\ last.ran
    /\ HasMetrics
    /\ UpdateOk
    /\ last.Status.CurrentRecommendation # <<>>
    /\ WritesOf(last.trace) =
          {"Status().Update", "Event DeploymentFound", "Event RecommendationGenerated"}

-----------------------------------------------------------------------------
(* C14 *)

\* the calls of GenerateRecommendation made so far: input and result
Calls ==
    {[metrics |-> analysis.metrics, policy |-> analysis.policy, out |-> analysis.out[i]] :
        i \in DOMAIN analysis.out}
    \cup {analysis.again[i] : i \in DOMAIN analysis.again}

\* the calls that returned a recommendation
Recommended == {c \in Calls : c.out.rec # <<>>}

\* C14: for every non-empty usage series and every policy, the recommendation
\* of GenerateRecommendation has cpuLimit >= cpuRequest and memoryLimit >=
\* memoryRequest.
C14_LimitsCoverRequests ==
    \A c \in Calls :
        c.metrics.Usage # <<>> =>
            /\ c.out.rec # <<>>
            /\ c.out.rec[1].CPULimit >= c.out.rec[1].CPURequest
            /\ c.out.rec[1].MemoryLimit >= c.out.rec[1].MemoryRequest

\* a recommendation whose CPU request was raised to the policy's minimum far
\* above the usage peak, with limits above both requests
C14_Witness ==
    \E c \in Recommended :
        /\ c.out.rec[1].CPURequest = ParseMilli(c.policy.Cpu.Min)
        /\ c.out.rec[1].CPURequest > 10 * PeakOf(c.metrics.Usage, "cpu")
        /\ c.out.rec[1].CPULimit > c.out.rec[1].CPURequest
        /\ c.out.rec[1].MemoryLimit > c.out.rec[1].MemoryRequest

-----------------------------------------------------------------------------
(* C15 *)

\* the policy's CPU bounds in milli-cores
cpuMin(c) == ParseMilli(c.policy.Cpu.Min)

cpuMax(c) == ParseMilli(c.policy.Cpu.Max)

\* total and number of the CPU usages of the call's series, in milli-cores
cpuTotal(c) == TotalOf(c.metrics.Usage, "cpu", 1)

cpuCount(c) == Len(c.metrics.Usage)

\* C15: for every non-empty usage series and every policy with cpuMin <= cpuMax
\* and targetUtilization in 1..100, the CPU request of GenerateRecommendation
\* lies in [cpuMin, cpuMax], however small or large the average usage is.
C15_RequestWithinBounds ==
    \A c \in Calls :
        (/\ c.metrics.Usage # <<>>
         /\ cpuMin(c) <= cpuMax(c)
         /\ c.policy.Cpu.TargetUtilization \in 1..100) =>
            /\ c.out.rec # <<>>
            /\ c.out.rec[1].CPURequest >= cpuMin(c)
            /\ c.out.rec[1].CPURequest <= cpuMax(c)

\* the same series under two CPU policies: under the first the average over the
\* utilization is below cpuMin and the request is cpuMin, under the second it is
\* above cpuMax and the request is cpuMax
C15_Witness ==
    \E c \in Recommended, d \in Recommended :
        /\ c.metrics = d.metrics
        /\ cpuMin(c) <= cpuMax(c)
        /\ cpuTotal(c) * 100 < cpuMin(c) * c.policy.Cpu.TargetUtilization * cpuCount(c)
        /\ c.out.rec[1].CPURequest = cpuMin(c)
        /\ cpuMin(d) <= cpuMax(d)
        /\ cpuTotal(d) * 100 > cpuMax(d) * d.policy.Cpu.TargetUtilization * cpuCount(d)
        /\ d.out.rec[1].CPURequest = cpuMax(d)

-----------------------------------------------------------------------------
(* C16 *)

\* C16: for every non-empty usage series and valid policy, the CPU request is
\* clamp(avg / (targetUtilization / 100), cpuMin, cpuMax) in whole milli-cores,
\* avg being the arithmetic mean of the samples' cpuMillis (the total over the
\* count, not cut to a whole number first), and the CPU limit is
\* max(request x 1.5, peak x 1.1) with peak the largest cpuMillis.
C16_RequestFromMean ==
    \A c \in Calls :
        (/\ c.metrics.Usage # <<>>
         /\ cpuMin(c) <= cpuMax(c)
         /\ c.policy.Cpu.TargetUtilization \in 1..100) =>
            /\ c.out.rec # <<>>
            /\ c.out.rec[1].CPURequest =
                  constrain((cpuTotal(c) * 100)
                               \div (cpuCount(c) * c.policy.Cpu.TargetUtilization),
                            cpuMin(c), cpuMax(c))
            /\ c.out.rec[1].CPULimit =
                  Max((c.out.rec[1].CPURequest * 3) \div 2,
                      (PeakOf(c.metrics.Usage, "cpu") * 11) \div 10)

-----------------------------------------------------------------------------
(* C17 *)

\* the whole part of v * percent / 100 (v is split so that no product leaves
\* the range of the model's integers)
PercentOf(v, percent) == (v \div 100) * percent + ((v % 100) * percent) \div 100

\* C17: for every non-empty usage series and every bufferPercent in 0..100, the
\* memory request is peak x (1 + bufferPercent / 100), peak being the largest
\* memoryBytes, and the memory limit is request x 1.2; no minimum or maximum
\* applies, and two calls that differ in the CPU policy alone return the same
\* memory request and limit.
C17_MemoryFromPeak ==
    /\ \A c \in Calls :
          (c.metrics.Usage # <<>> /\ c.policy.Memory.BufferPercent \in 0..100) =>
              /\ c.out.rec # <<>>
              /\ c.out.rec[1].MemoryRequest =
                    PeakOf(c.metrics.Usage, "memory")
                    + PercentOf(PeakOf(c.metrics.Usage, "memory"),
                                c.policy.Memory.BufferPercent)
              /\ c.out.rec[1].MemoryLimit =
                    c.out.rec[1].MemoryRequest + PercentOf(c.out.rec[1].MemoryRequest, 20)
    /\ \A c \in Recommended, d \in Recommended :
          (c.metrics = d.metrics /\ c.policy.Memory = d.policy.Memory) =>
              /\ c.out.rec[1].MemoryRequest = d.out.rec[1].MemoryRequest
              /\ c.out.rec[1].MemoryLimit = d.out.rec[1].MemoryLimit

-----------------------------------------------------------------------------
(* C18 *)

\* the sum of the squares of the CPU usages of the series, from place i on
RECURSIVE SquareTotal(_, _)
SquareTotal(usage, i) ==
    IF i > Len(usage) THEN 0
    ELSE ValueOf(usage[i], "cpu") * ValueOf(usage[i], "cpu") + SquareTotal(usage, i + 1)

\* n * n times the population variance of the CPU usages of a series of n
\* samples: n * (sum of the squares) - (the sum)^2, a whole number
ScaledVariance(usage) ==
    Len(usage) * SquareTotal(usage, 1) - TotalOf(usage, "cpu", 1) * TotalOf(usage, "cpu", 1)

\* the confidence the sample count and the variance call for, in hundredths
ScoreOf(usage) ==
    IF Len(usage) < 5 THEN 30
    ELSE IF Len(usage) < 20 THEN 60
    ELSE IF ScaledVariance(usage) < 100 * Len(usage) * Len(usage) THEN 90
    ELSE IF ScaledVariance(usage) < 500 * Len(usage) * Len(usage) THEN 70
    ELSE 50

\* C18: the confidence is 0.3 for fewer than 5 samples and 0.6 for 5 to 19,
\* whatever the variance; from 20 samples on the population variance of the
\* cpuMillis decides: below 100 it is 0.9, from 100 to below 500 it is 0.7, from
\* 500 on it is 0.5.  It is always one of 0.3, 0.5, 0.6, 0.7, 0.9.
C18_ConfidenceByCountAndVariance ==
    \A c \in Recommended :
        /\ c.out.rec[1].Confidence = ScoreOf(c.metrics.Usage)
        /\ c.out.rec[1].Confidence \in {30, 50, 60, 70, 90}

-----------------------------------------------------------------------------
(* C19 *)

\* the CPU usages of the call's series, in milli-cores and in their order
cpuValues(c) == [i \in DOMAIN c.metrics.Usage |-> ValueOf(c.metrics.Usage[i], "cpu")]

-----------------------------------------------------------------------------
(* C20 *)

\* C20: GenerateRecommendation returns an error for want of data (its text is
\* "no usage data available") and no recommendation if and only if the usage
\* series is empty; for every non-empty series with a valid policy it returns a
\* recommendation and no error.
C20_ErrorIffEmpty ==
    \A c \in Calls :
        /\ c.metrics.Usage = <<>> <=>
              (c.out.err = "no usage data available" /\ c.out.rec = <<>>)
        /\ c.metrics.Usage # <<>> => (c.out.err = "nil" /\ c.out.rec # <<>>)

\* the Analyzer was called on the empty series and returned the error and no
\* recommendation, under two policies
C20_Witness ==
    \E c \in Calls, d \in Calls :
        /\ c.metrics.Usage = <<>>
        /\ d.metrics.Usage = <<>>
        /\ c.policy # d.policy
        /\ c.out.err # "nil" /\ c.out.rec = <<>>
        /\ d.out.err # "nil" /\ d.out.rec = <<>>

-----------------------------------------------------------------------------
(* C21 *)

\* the calls of CollectWorkloadMetrics made so far: the List call's answer and
\* the result
Collections ==
    {[answer |-> collection.answer, out |-> collection.out[i]] : i \in DOMAIN collection.out}
    \cup {collection.again[i] : i \in DOMAIN collection.again}

\* the calls that returned a series
Collected == {c \in Collections : c.out.metrics # <<>>}

\* C21: CollectWorkloadMetrics returns one usage sample per pod-metrics item, in
\* the order of the items, and each sample's CPU and memory are the sums over
\* the containers of that item alone, whatever the items before it were, with
\* that item's timestamp.
C21_OneSamplePerPod ==
    \A c \in Collected :
        /\ Len(c.out.metrics[1].Usage) = Len(c.answer.Items)
        /\ \A i \in DOMAIN c.answer.Items :
              /\ c.out.metrics[1].Usage[i].CPUUsage =
                    SumContainers(c.answer.Items[i].Containers, "cpu")
              /\ c.out.metrics[1].Usage[i].MemoryUsage =
                    SumContainers(c.answer.Items[i].Containers, "memory")
              /\ c.out.metrics[1].Usage[i].Timestamp = c.answer.Items[i].Timestamp

-----------------------------------------------------------------------------
(* C22 *)

\* C22: CollectWorkloadMetrics makes exactly one List call per call and never
\* asks again; when the List call fails it returns an error and no series; when
\* it succeeds with no items it returns an empty series and no error; it
\* returns an error in no other case.
C22_OneQueryNoRetry ==
    \A c \in Collections :
        /\ c.out.calls = <<"PodMetricses.List">>
        /\ c.answer.err # "nil" => (c.out.err # "nil" /\ c.out.metrics = <<>>)
        /\ (c.answer.err = "nil" /\ c.answer.Items = <<>>) =>
              /\ c.out.err = "nil"
              /\ c.out.metrics # <<>>
              /\ c.out.metrics[1].Usage = <<>>
        /\ c.out.err # "nil" => c.answer.err # "nil"

\* the List call of the first call failed, the one of the second call answered
\* with no items: an error and no series, then an empty series and no error
C22_Witness ==
    /\ collection.out # <<>>
    /\ collection.again # <<>>
    /\ collection.answer.err # "nil"
    /\ collection.out[1].err # "nil"
    /\ collection.out[1].metrics = <<>>
    /\ collection.again[1].answer = [err |-> "nil", Items |-> <<>>]
    /\ collection.again[1].out.err = "nil"
    /\ collection.again[1].out.metrics = <<[Usage |-> <<>>]>>

-----------------------------------------------------------------------------
(* C23 *)

\* the status holds a condition of the type with the value True
IsTrue(status, condType) ==
    \E i \in DOMAIN status.Conditions :
        status.Conditions[i].Type = condType /\ status.Conditions[i].Status = "True"

\* C23: a pass records the "target found" event only when it turns
\* DeploymentReady to True from absent or not True in the stored status, and
\* the "recommendation generated" event only when it generates a
\* recommendation; a pass that finds DeploymentReady=True stored, the target
\* still being there, records no further "target found" event.
C23_EventsOncePerTransition ==
    [][(last'.ran /\ now' = now) =>
          /\ Count(last'.trace, "Event DeploymentFound") > 0 =>
                /\ ~IsTrue(resourceOptimizer.Status, "DeploymentReady")
                /\ IsTrue(last'.Status, "DeploymentReady")
          /\ Count(last'.trace, "Event RecommendationGenerated") > 0 =>
                /\ Count(last'.trace, "GenerateRecommendation") = 1
                /\ last'.Status.CurrentRecommendation # <<>>]_vars

-----------------------------------------------------------------------------
(* C24 *)

\* C24: in every stored status, whatever passes ran over whatever answers of
\* the cluster, Ready=True comes with DeploymentReady=True and
\* OptimizationReady=True.
C24_ReadyImpliesSubconditions ==
    IsTrue(resourceOptimizer.Status, "Ready") =>
        /\ IsTrue(resourceOptimizer.Status, "DeploymentReady")
        /\ IsTrue(resourceOptimizer.Status, "OptimizationReady")

-----------------------------------------------------------------------------
(* C25 *)

\* the pass of this step generated a recommendation
Generated == Count(last'.trace, "GenerateRecommendation") = 1
             /\ Count(last'.trace, "Event RecommendationGenerated") = 1

\* C25: the stored recommendation is null until the first pass that generates
\* one and is changed by such passes alone: a target-absent, no-metrics or
\* analysis-failed pass leaves CurrentRecommendation as it was, in the stored
\* status and in the object it worked on, and never clears it; so in every
\* stored status OptimizationReady=True comes with a recommendation.
C25_RecommendationKept ==
    [][/\ resourceOptimizer'.Status.CurrentRecommendation
            # resourceOptimizer.Status.CurrentRecommendation =>
             (last'.ran /\ now' = now /\ Generated)
       /\ (last'.ran /\ now' = now /\ ~Generated) =>
             last'.Status.CurrentRecommendation
                = resourceOptimizer.Status.CurrentRecommendation
       /\ resourceOptimizer.Status.CurrentRecommendation # <<>> =>
             resourceOptimizer'.Status.CurrentRecommendation # <<>>
       /\ IsTrue(resourceOptimizer'.Status, "OptimizationReady") =>
             resourceOptimizer'.Status.CurrentRecommendation # <<>>]_vars

\* a recommendation was stored, and the pass after it found the usage query
\* failing and stored OptimizationReady=False next to the recommendation
C25_Witness ==
    /\ last.ran
    /\ QueryFailed
    /\ UpdateOk
    /\ resourceOptimizer.Status = last.Status
    /\ HasCond(resourceOptimizer.Status, "OptimizationReady", "False", "AnalysisFailed")
    /\ resourceOptimizer.Status.CurrentRecommendation # <<>>

-----------------------------------------------------------------------------
(* C26 *)

\* C26: a pass returns an error in three cases only: reading the optimization
\* resource failed with an error other than NotFound, the target lookup failed
\* with an error other than NotFound, or the last status update of the
\* recommendation or no-metrics path failed.  A failed status update on the
\* target-absent and analysis-failed paths is ignored: the pass returns no
\* error and its re-run after 5 or 10 minutes, and the stored status stays as
\* it was.
C26_ErrorsReturned ==
    [][(last'.ran /\ now' = now) =>
          /\ last'.err # "nil" <=>
                \/ env'.optimizerGet = "InfraError"
                \/ TargetError'
                \/ (NoMetrics' \/ HasMetrics') /\ ~UpdateOk'
          /\ (TargetAbsent' /\ ~UpdateOk') =>
                /\ last'.err = "nil"
                /\ last'.RequeueAfter = 5
                /\ resourceOptimizer' = resourceOptimizer
          /\ (QueryFailed' /\ ~UpdateOk') =>
                /\ last'.err = "nil"
                /\ last'.RequeueAfter = 10
                /\ resourceOptimizer' = resourceOptimizer]_vars

\* the usage query failed and so did the status update: the pass returned no
\* error and the re-run after 10 minutes, and the condition it set is not stored
C26_Witness ==
    /\ last.ran
    /\ QueryFailed
    /\ ~UpdateOk
    /\ last.err = "nil"
    /\ last.RequeueAfter = 10
    /\ HasCond(last.Status, "OptimizationReady", "False", "AnalysisFailed")
    /\ CondsOf(resourceOptimizer.Status.Conditions, "OptimizationReady") = <<>>

-----------------------------------------------------------------------------
(* The passes of two resources, run by the workers of one controller *)

\* the most passes the workers start in a run
MaxPasses == 2

\* the names of the two ResourceOptimizers (req.NamespacedName)
Names == {"A", "B"}

\* the other resource
Other(name) == CHOOSE m \in Names : m # name

\* the fields of the reconciler the passes share: the Collector holds its two
\* clients, the Analyzer is an empty struct
Reconciler ==
    [metricsCollector |-> [kubeClient |-> "kubeClient", metricsClient |-> "metricsClient"],
     analyzer         |-> <<>>]

\* the answers the passes of the two resources get: the resource is there, the
\* target is there or missing, the usage query fails or answers up to one item,
\* and the status update that stores a recommendation fails or not
WorkerEnvs ==
    {e \in Envs : /\ e.optimizerGet = "nil"
                  /\ e.deployGet # "InfraError"
                  /\ Len(e.podMetrics.Items) <= 1
                  /\ e.updateErr # "nil" => Len(e.podMetrics.Items) = 1}

\* the policies of the two resources
WorkerPolicies ==
    [A |-> CHOOSE pol \in Policies : pol.Cpu.TargetUtilization = 70,
     B |-> CHOOSE pol \in Policies : pol.Cpu.TargetUtilization = 50]

\* r.Get(ctx, req.NamespacedName, resourceOptimizer): the stored object of that name
Get(store, name) == store[name]

\* r.Status().Update writing the status to every stored object
StatusUpdate_AllNames(store, obj) ==
    [m \in DOMAIN store |-> [store[m] EXCEPT !.Status = obj.Status]]

\* r.Status().Update(ctx, resourceOptimizer): the status of the object of that name
StatusUpdate(store, obj) ==
    [store EXCEPT ![obj.Name] = [@ EXCEPT !.Status = obj.Status]]

\* one whole pass for name on the store: read, reconcile, write
RunPass(store, pass) ==
    With(Get(store, pass.name), LAMBDA obj :
    With(ReconcilePass(obj, pass.e, pass.t), LAMBDA r :
        IF r.written # <<>>
        THEN StatusUpdate(store, [obj EXCEPT !.Status = r.written[1]])
        ELSE store))

\* the passes of a sequence run one after another on the store
RECURSIVE RunSerial(_, _)
RunSerial(store, passes) ==
    IF passes = <<>> THEN store
    ELSE RunSerial(RunPass(store, Head(passes)), Tail(passes))

\* the orders in which the passes of a and of b can run one after another, each
\* resource's own passes in their order (the work queue runs one pass of a
\* resource at a time)
RECURSIVE Merges(_, _)
Merges(a, b) ==
    IF a = <<>> THEN {b}
    ELSE IF b = <<>> THEN {a}
    ELSE {<<Head(a)>> \o m : m \in Merges(Tail(a), b)}
         \cup {<<Head(b)>> \o m : m \in Merges(a, Tail(b))}

InitWorkers ==
    /\ resourceOptimizer = [Spec |-> [Policy |-> CHOOSE pol \in Policies : TRUE],
                            Status |-> EmptyStatus]
    /\ env = EnvQuiet
    /\ now = 0
    /\ last = NoPass
    /\ analysis = NoAnalysis
    /\ collection = NoCollection
    /\ \E first \in {[name \in Names |->
                        [Name   |-> name,
                         Spec   |-> [Policy |-> WorkerPolicies[name]],
                         Status |-> EmptyStatus]]} :
          workers = [first      |-> first,
                     store      |-> first,
                     flight     |-> [name \in Names |-> <<>>],
                     passes     |-> [name \in Names |-> <<>>],
                     reconciler |-> Reconciler]

\* a worker takes the request of name off the queue and runs Reconcile up to
\* its status update: what it read of the store and what it is about to write
Begin ==
    /\ Len(workers.passes["A"]) + Len(workers.passes["B"]) < MaxPasses
    /\ \E name \in Names, e \in WorkerEnvs :
          /\ workers.flight[name] = <<>>
          /\ \E obj \in {Get(workers.store, name)} :
             \E r \in {ReconcilePass(obj, e, now)} :
                workers' =
                  [workers EXCEPT
                     !.flight[name] = <<[obj     |-> obj,
                                         written |-> r.written,
                                         result  |-> [RequeueAfter |-> r.RequeueAfter,
                                                      err |-> r.err]]>>,
                     !.passes[name] = Append(@, [name |-> name, e |-> e, t |-> now])]
    /\ UNCHANGED <<resourceOptimizer, env, now, last, analysis, collection>>

\* the pass of name in flight makes its status update, if its path has one, and
\* returns
End ==
    /\ \E name \in Names :
          /\ workers.flight[name] # <<>>
          /\ \E f \in {workers.flight[name][1]} :
                workers' =
                  [workers EXCEPT
                     !.flight[name] = <<>>,
                     !.store = IF f.written # <<>>
                               THEN StatusUpdate(@, [f.obj EXCEPT !.Status = f.written[1]])
                               ELSE @]
    /\ UNCHANGED <<resourceOptimizer, env, now, last, analysis, collection>>

NextWorkers == Tick \/ Begin \/ End

SpecWorkers == InitWorkers /\ [][NextWorkers]_vars

-----------------------------------------------------------------------------
(* C27 *)

\* the passes of name that have ended, in their order
Ended(w, name) ==
    IF w.flight[name] = <<>> THEN w.passes[name]
    ELSE SubSeq(w.passes[name], 1, Len(w.passes[name]) - 1)

\* C27: the passes of two resources are independent under every interleaving.
\* A step of a pass for one resource leaves the stored object of the other as
\* it was, the object a pass works on is the stored object of its own name, the
\* fields of the reconciler the passes share never change, and the stored
\* statuses are those of running the passes that have ended one after another,
\* in every order of the two resources' passes.
C27_PassesIndependent ==
    [][/\ workers'.reconciler = workers.reconciler
       /\ \A name \in Names :
             /\ workers'.flight[name] # workers.flight[name] =>
                   workers'.store[Other(name)] = workers.store[Other(name)]
             /\ (workers.flight[name] = <<>> /\ workers'.flight[name] # <<>>) =>
                   /\ workers'.flight[name][1].obj = workers.store[name]
                   /\ workers'.flight[name][1].obj.Name = name
       /\ \A order \in Merges(Ended(workers', "A"), Ended(workers', "B")) :
             workers'.store = RunSerial(workers'.first, order)]_vars

\* a pass of A is in flight with a recommendation to write; after it began, a
\* pass of B began and ended, storing that B's target is missing, while A's
\* stored status is still the one A's pass read
C27_Witness ==
    /\ workers.flight["A"] # <<>>
    /\ workers.flight["A"][1].written # <<>>
    /\ workers.flight["A"][1].written[1].CurrentRecommendation # <<>>
    /\ workers.store["A"] = workers.flight["A"][1].obj
    /\ workers.flight["B"] = <<>>
    /\ Len(workers.passes["B"]) = 1
    /\ workers.passes["B"][1].t > workers.passes["A"][1].t
    /\ HasCond(workers.store["B"].Status, "DeploymentReady", "False", "TargetNotFound")

====
